---- MODULE Spec2Model ----
(***************************************************************************)
(* Steam game playtime tracker: the process watcher (ProcessWatcher), the  *)
(* playtime store it keeps in data/playtime.json, and the presentation     *)
(* layer's aggregation of that file (MainWindow.refresh).                  *)
(*                                                                         *)
(* Time is counted in clock units of 1/TicksPerSec second, so that the     *)
(* truncations of the code (int(...), strftime to whole seconds) are       *)
(* visible.  A calendar date is a day number; a formatted timestamp is a   *)
(* whole number of seconds.                                                *)
(***************************************************************************)
EXTENDS Integers, Sequences, FiniteSets, TLC

\* ------------------------------------------------------------------ bounds
MaxClock == 6
TicksPerSec == 2
DayLen == 3
MaxProcs == 2
WeekLen == 2
YearWeeks == 2
MaxUIClock == 24
MaxCount == 2
MaxFaults == 1
MaxCb == 2
MaxBelowZero == 5
MaxSeconds == 7200

\* ------------------------------------------------------- values and helpers
Null == -1

Exes == {"a.exe", "b.exe"}
Names == {"Game", "Other"}

\* The catalogs scan_steam_games may hand to the watcher: executable file
\* name (lower case) -> display name.  In the first both executables belong
\* to one game, in the second to two games.
Catalogs ==
  { [e \in Exes |-> "Game"],
    [e \in Exes |-> IF e = "a.exe" THEN "Game" ELSE "Other"] }

Put(f, k, v) == [x \in (DOMAIN f) \cup {k} |-> IF x = k THEN v ELSE f[x]]

Min(a, b) == IF a < b THEN a ELSE b

\* int(x) of a difference of two clock readings: truncation toward zero.
TruncSecs(x) == IF x >= 0 THEN x \div TicksPerSec ELSE -((-x) \div TicksPerSec)

\* strftime("%Y-%m-%d %H:%M:%S") of a clock reading: whole seconds.
FormatTs(t) == t \div TicksPerSec

\* strftime("%Y-%m-%d") of a clock reading: the calendar day.
DateOf(t) == (t \div TicksPerSec) \div DayLen

\* ------------------------------------------------------------ the store file
\* A record of the document (the value under date -> game):
\*   kind "ok"       a mapping with an integer "total"
\*        "nototal"  a mapping without "total"
\*        "badtotal" a mapping whose "total" is not a number (null, a string)
\*        "scalar"   not a mapping (a number, as in {"Foo": 5})
\*   extra: the mapping holds a field the program does not know.
Rec(k, t, lo, lc, x) ==
  [kind |-> k, total |-> t, last_open |-> lo, last_close |-> lc, extra |-> x]

NoGames == [n \in {} |-> Rec("ok", 0, Null, Null, FALSE)]

\* A date entry: a mapping game -> record, or something else ("scalar").
DayDict(g) == [kind |-> "dict", games |-> g]
DayScalar == [kind |-> "scalar", games |-> NoGames]

NoDays == [d \in {} |-> DayScalar]

\* A key of the document that is not a "%Y-%m-%d" date.
BadKey == -1

\* The file: missing, empty, text that is not JSON ("garbage"), bytes that
\* are not UTF-8 text ("undecodable": a text cut inside a multi-byte
\* character), or JSON ("json") whose top level is a mapping ("dict") or not
\* ("list").
FileOf(k, t, d) == [kind |-> k, top |-> t, days |-> d]
FileMissing == FileOf("missing", "none", NoDays)
FileEmpty == FileOf("empty", "none", NoDays)
FileGarbage == FileOf("garbage", "none", NoDays)
FileList == FileOf("json", "list", NoDays)
FileCut == FileOf("undecodable", "none", NoDays)

\* json.dumps(data) written to the file.
Dump(days) == FileOf("json", "dict", days)

\* "{}"
EmptyDoc == Dump(NoDays)

\* The record the file holds under (day, name); kind "none" when there is none.
NoRec == Rec("none", 0, Null, Null, FALSE)

DiskRec(f, day, name) ==
  IF /\ f.kind = "json"
     /\ f.top = "dict"
     /\ day \in DOMAIN f.days
     /\ f.days[day].kind = "dict"
     /\ name \in DOMAIN f.days[day].games
  THEN f.days[day].games[name]
  ELSE NoRec

\* The file's content, where it is JSON, has the document's shape on the path
\* to (day, name): the top level, the date entry and the record are mappings
\* and the record has an integer total.
ShapeOk(f, day, name) ==
  f.kind = "json" =>
    /\ f.top = "dict"
    /\ day \in DOMAIN f.days =>
         /\ f.days[day].kind = "dict"
         /\ name \in DOMAIN f.days[day].games =>
              f.days[day].games[name].kind = "ok"

\* Path.write_text: open(mode="w") truncates the file, then the text is
\* written.  Outcomes: "ok"; "open_fail" (open raises, nothing touched);
\* "trunc" (the write raises after the truncation: the file is left empty,
\* or with a part of the text, which no reader can parse either).
WriteOutcomes == {"ok", "open_fail", "trunc"}
ReadOutcomes == {"ok", "fail"}

WriteText(old, new, wr) ==
  CASE wr = "ok" -> new
    [] wr = "open_fail" -> old
    [] OTHER -> FileEmpty

\* ------------------------------------------------------------------ state
VARIABLES
  pc,           \* start_monitor: "idle" (no watcher, no loop), "tick", "sleep",
                \* "dead" (left by an exception of the loop), "ended" (left
                \* before the watcher was constructed)
  games,        \* ProcessWatcher.games: the catalog scan_steam_games returns
  running,      \* ProcessWatcher.running, in insertion order: <<[exe, start]>>
  clock,        \* time.time() / datetime.now(), in clock units
  file,         \* content of data/playtime.json
  events,       \* log lines emitted by the last operation, in order
  merges,       \* one report per _record call of the last tick, in order
  last,         \* the last operation and how it ended; for a tick, also
                \* what it yields on the scan without the processes whose
                \* path could not be read; for a construction, the
                \* executables in running of the watcher it replaced, and
                \* for the tick after it, those of them it observed
  runStarts,    \* per executable: start events in the current run of presence
  openStarts,   \* per executable: start events no stop event has consumed
  startedAt,    \* per executable: the clock reading logged by its last start event
  stopInfo,     \* per report of merges: openStarts and startedAt before the stop
  faults,       \* I/O operations that have failed so far
  ledger,       \* per (day, name) handed to _record: the total the file held
                \* before the first call, and the sum of the durations handed;
                \* kept up to the first tick that was not nominal
  nominal,      \* every _record call so far found a well-formed store and
                \* read and wrote it without failure
  view,         \* MainWindow: cache and labels, and how the last refresh ended
  tray,         \* TrayIcon.update_menu: how the last ranking read ended
  cbref,        \* the invocations on which the log callback raised in the
                \* last pass of the loop, and what the tick yields with a
                \* callback that returns normally
  scan          \* per catalog file name: the processes of the last scan
                \* that bear it, where the scan is recorded (SpecProcs)

vars == <<pc, games, running, clock, file, events, merges, last,
          runStarts, openStarts, startedAt, stopInfo, faults, ledger, nominal,
          view, tray, cbref, scan>>

Event(t, e, v) == [type |-> t, exe |-> e, val |-> v]

LogUnguarded(evs, ev, cb) ==
  [events |-> Append(evs, ev), raised |-> (Len(evs) + 1) \in cb]

\* ProcessWatcher._log: the message goes to the console and to the injected
\* callback; cb holds the invocations (counted within the operation) on
\* which the callback raises.  The try around the callback swallows it.
Log(evs, ev, cb) == [events |-> Append(evs, ev), raised |-> FALSE]

\* _log of the messages ms in turn, up to the first that raises.
RECURSIVE LogAll(_, _, _)
LogAll(evs, ms, cb) ==
  IF ms = <<>> THEN [events |-> evs, raised |-> FALSE]
  ELSE LET l == Log(evs, Head(ms), cb)
       IN  IF l.raised THEN l ELSE LogAll(l.events, Tail(ms), cb)

LoadAlwaysEmpty(f, rd) == [ok |-> FALSE, top |-> "dict", days |-> NoDays]

\* ProcessWatcher._load: the parsed content, or {} with a warning.
Load(f, rd) ==
  IF rd = "ok" /\ f.kind = "json"
  THEN [ok |-> TRUE, top |-> f.top, days |-> f.days]
  ELSE [ok |-> FALSE, top |-> "dict", days |-> NoDays]

SaveWithoutLog(old, days, wr) ==
  [file |-> WriteText(old, Dump(days), wr), events |-> <<>>]

\* ProcessWatcher._save: write the document; a failure is logged, not raised.
Save(old, days, wr) ==
  [file |-> WriteText(old, Dump(days), wr),
   events |-> IF wr = "ok" THEN <<>> ELSE <<Event("err_save", "", 0)>>]

UpdatedRecKeepsOpen(rec, start, dur, now) ==
  [rec EXCEPT !.total = @ + dur,
              !.last_open = IF @ = Null THEN FormatTs(start) ELSE @,
              !.last_close = FormatTs(now)]

UpdatedRecOverwrites(rec, start, dur, now) ==
  [rec EXCEPT !.total = dur,
              !.last_open = FormatTs(start),
              !.last_close = FormatTs(now)]

\* Lines 189-191: the record after the session is added to it.
UpdatedRec(rec, start, dur, now) ==
  [rec EXCEPT !.total = @ + dur,
              !.last_open = FormatTs(start),
              !.last_close = FormatTs(now)]

\* The merge of _record, lines 177-191, on the loaded document: the updated
\* document, or raised (setdefault on a value that is no mapping, "total" of
\* a record that is no mapping, has no total or a total no int can be added
\* to).
Merge(data, name, start, dur, now) ==
  LET today == DateOf(now)
      days1 == IF today \in DOMAIN data.days
               THEN data.days
               ELSE Put(data.days, today, DayDict(NoGames))
      day == days1[today]
      games1 == IF name \in DOMAIN day.games
                THEN day.games
                ELSE Put(day.games, name, Rec("ok", 0, Null, Null, FALSE))
      rec == games1[name]
      rec2 == UpdatedRec(rec, start, dur, now)
  IN  IF data.top # "dict" \/ day.kind # "dict" \/ rec.kind # "ok"
      THEN [raised |-> TRUE, days |-> data.days]
      ELSE [raised |-> FALSE,
            days |-> Put(days1, today, DayDict(Put(games1, name, rec2)))]

\* What a _record call leaves: f2 is the file after it.
RecordOutcome(f, f2, name, exe, start, dur, now, rd, wr, data, raised, evs) ==
  [file |-> f2,
   raised |-> raised,
   events |-> evs,
   report |-> [exe |-> exe, name |-> name, day |-> DateOf(now),
               start |-> start, dur |-> dur, now |-> now,
               rd |-> rd, wr |-> wr, raised |-> raised,
               loaded |-> data.ok, shapeOk |-> ShapeOk(f, DateOf(now), name),
               fkind |-> f.kind, ftop |-> f.top,
               gotEmpty |-> (data.top = "dict" /\ data.days = NoDays),
               fileSame |-> (f2 = f), fkind2 |-> f2.kind,
               before |-> DiskRec(f, DateOf(now), name),
               after |-> DiskRec(f2, DateOf(now), name)]]

\* _record after its load: merge and save, and the log lines of the call in
\* their order (stop, load warning, save error).  The save is reached when
\* the merge did not raise and no log line before it did; evs0 is the log of
\* the operation so far.
RecordLoaded(f, name, exe, start, dur, now, rd, wr, data, m, sv, evs0, cb) ==
  LET before == <<Event("stop", exe, dur)>>
                \o (IF data.ok THEN <<>> ELSE <<Event("warn_load", "", 0)>>)
      l == LogAll(evs0, IF m.raised THEN before ELSE before \o sv.events, cb)
      saved == ~m.raised /\ ~(l.raised /\ Len(l.events) - Len(evs0) <= Len(before))
  IN  RecordOutcome(f, IF saved THEN sv.file ELSE f, name, exe, start, dur, now,
                    rd, wr, data, l.raised \/ m.raised, l.events)

\* _record after its load and merge: the save.
RecordMerged(f, name, exe, start, dur, now, rd, wr, data, m, evs0, cb) ==
  RecordLoaded(f, name, exe, start, dur, now, rd, wr, data, m,
               Save(f, m.days, wr), evs0, cb)

\* game_name = self.games[exe]["name"], line 160: the key of the record.
GameName(cat, exe) == cat[exe]

\* ProcessWatcher._record(exe, start_ts, duration) at clock reading now, with
\* the outcomes rd of the read and wr of the write: the stop log, load,
\* merge, save.
Record(cat, f, exe, start, dur, now, rd, wr, evs0, cb) ==
  LET data == Load(f, rd)
  IN  RecordMerged(f, GameName(cat, exe), exe, start, dur, now, rd, wr, data,
                   Merge(data, GameName(cat, exe), start, dur, now), evs0, cb)

\* ------------------------------------------------------------ process scan
\* What psutil.process_iter yields for one process: its "exe" path ("" for
\* None), or a failure of the inspection: "denied" stands for NoSuchProcess,
\* AccessDenied and ZombieProcess, "error" for any other exception.
Proc(p, fl) == [exe |-> p, fault |-> fl]

ProcKinds ==
  { Proc("C:/Games/A/A.EXE", "none"), Proc("C:/Games/B/b.exe", "none"),
    Proc("C:/Windows/notepad.exe", "none"), Proc("", "none"),
    Proc("", "denied"), Proc("", "error") }

\* Path(proc_exe).name.lower()
BaseNameLower(p) ==
  CASE p = "C:/Games/A/A.EXE" -> "a.exe"
    [] p = "C:/Games/B/b.exe" -> "b.exe"
    [] p = "D:/Old/a.exe" -> "a.exe"
    [] p = "C:/Windows/notepad.exe" -> "notepad.exe"
    [] OTHER -> ""

Scans == UNION { [1..n -> ProcKinds] : n \in 0..MaxProcs }

Keys(run) == { run[i].exe : i \in DOMAIN run }

IsNewStartAlways(run, exe) == TRUE

\* Lines 130-142 for one matched file name: the start is detected when the
\* name is not in running.
IsNewStart(run, exe) == exe \notin Keys(run)

AfterSkipBreak(procs, i) == Len(procs) + 1

\* The continue of lines 117, 124 and 127: the scan goes on with the next
\* process.
AfterSkip(procs, i) == i + 1

\* The scan loop of tick, lines 109-142, from process i on: the seen set,
\* running and the log after it.
RECURSIVE ScanFrom(_, _, _, _, _, _, _, _)
ScanFrom(cat, procs, i, now, seen, run, evs, cb) ==
  IF i > Len(procs)
  THEN [seen |-> seen, running |-> run, events |-> evs, raised |-> FALSE]
  ELSE
    LET p == procs[i]
        exe == BaseNameLower(p.exe)
    IN  IF p.fault = "denied" \/ (p.fault = "none" /\ p.exe = "")
        THEN ScanFrom(cat, procs, AfterSkip(procs, i), now, seen, run, evs, cb)
        ELSE IF p.fault = "error"
        THEN LET l == Log(evs, Event("warn_proc", "", 0), cb)
             IN  IF l.raised
                 THEN [seen |-> seen, running |-> run, events |-> l.events,
                       raised |-> TRUE]
                 ELSE ScanFrom(cat, procs, AfterSkip(procs, i), now, seen, run,
                               l.events, cb)
        ELSE IF exe \notin DOMAIN cat
        THEN ScanFrom(cat, procs, i + 1, now, seen, run, evs, cb)
        ELSE IF IsNewStart(run, exe)
        THEN LET run2 == Append(run, [exe |-> exe, start |-> now])
                 l == Log(evs, Event("start", exe, now), cb)
             IN  IF l.raised
                 THEN [seen |-> seen \cup {exe}, running |-> run2,
                       events |-> l.events, raised |-> TRUE]
                 ELSE ScanFrom(cat, procs, i + 1, now, seen \cup {exe}, run2,
                               l.events, cb)
        ELSE ScanFrom(cat, procs, i + 1, now, seen \cup {exe}, run, evs, cb)

RemoveExeNever(run, e) == run

\* self.running.pop(exe), line 147
RemoveExe(run, e) == SelectSeq(run, LAMBDA r : r.exe # e)

DurationRoundedUp(now, start) == (now - start + TicksPerSec - 1) \div TicksPerSec

DurationReversed(now, start) == TruncSecs(start - now)

\* int(time.time() - start_ts), line 148
Duration(now, start) == TruncSecs(now - start)

AfterRaisePopUndone(run, run2) == run

\* running when _record raised, lines 147-149: the pop came before the
\* call, so the entry is gone (run2), not kept (run).
AfterRaise(run, run2) == run2

\* The shutdown loop of tick, lines 145-149, over the snapshot keys of
\* running from position i on; io[k] is the outcome of the k-th _record call.
\* An exception of _record leaves the loop and tick.
RECURSIVE StopFrom(_, _, _, _, _, _, _, _, _, _, _)
StopFrom(cat, keys, i, now, seen, run, f, io, evs, reps, cb) ==
  IF i > Len(keys)
  THEN [running |-> run, file |-> f, events |-> evs, merges |-> reps,
        raised |-> FALSE]
  ELSE
    LET e == keys[i].exe
    IN  IF e \in seen
        THEN StopFrom(cat, keys, i + 1, now, seen, run, f, io, evs, reps, cb)
        ELSE
          LET start == keys[i].start
              o == io[Len(reps) + 1]
              r == Record(cat, f, e, start, Duration(now, start), now, o.rd, o.wr,
                          evs, cb)
              run2 == RemoveExe(run, e)
          IN  IF r.raised
              THEN [running |-> AfterRaise(run, run2), file |-> r.file,
                    events |-> r.events,
                    merges |-> Append(reps, r.report), raised |-> TRUE]
              ELSE StopFrom(cat, keys, i + 1, now, seen, run2, r.file, io,
                            r.events, Append(reps, r.report), cb)

\* ProcessWatcher.tick on the scan procs at clock reading now.
TickResult(cat, run, f, now, procs, io, cb) ==
  LET s == ScanFrom(cat, procs, 1, now, {}, run, <<>>, cb)
      t == IF s.raised
           THEN [running |-> s.running, file |-> f, events |-> s.events,
                 merges |-> <<>>, raised |-> TRUE]
           ELSE StopFrom(cat, s.running, 1, now, s.seen, s.running, f, io,
                         s.events, <<>>, cb)
  IN  [seen |-> s.seen, running |-> t.running, file |-> t.file,
       events |-> t.events, merges |-> t.merges, raised |-> t.raised]

IOs == [rd : ReadOutcomes, wr : WriteOutcomes]

\* The number of _record calls tick may make on this scan.
NStops(cat, run, procs) ==
  Cardinality(Keys(run) \ { BaseNameLower(procs[i].exe) : i \in DOMAIN procs })

\* ---------------------------------------------------------------- actions
\* Contents the store file may have when the program starts: the file is the
\* user's to edit or delete.
SampleDays ==
  { NoDays,
    [d \in {0} |-> DayDict([n \in Names |->
        IF n = "Game" THEN Rec("ok", 2, 0, 1, FALSE) ELSE Rec("ok", 1, 0, 0, TRUE)])],
    [d \in {0, 1} |-> IF d = 0 THEN DayScalar
                      ELSE DayDict([n \in {"Other"} |-> Rec("ok", 3, Null, Null, FALSE)])],
    [d \in {0} |-> DayDict([n \in Names |->
        IF n = "Game" THEN Rec("scalar", 5, Null, Null, FALSE)
        ELSE Rec("ok", 1, 0, 0, FALSE)])],
    [d \in {0, 1} |-> DayDict([n \in {"Game"} |->
        IF d = 0 THEN Rec("nototal", 0, 0, 0, FALSE) ELSE Rec("badtotal", 0, 0, 0, FALSE)])],
    [d \in {BadKey, 0} |-> DayDict([n \in {"Other"} |-> Rec("ok", 1, 0, 0, FALSE)])] }

InitFiles ==
  {FileMissing, FileEmpty, FileGarbage, FileList} \cup { Dump(d) : d \in SampleDays }

\* No tick yet: nothing to compare.
NoClean == [seen |-> {}, running |-> <<>>, file |-> FileMissing,
            merges |-> <<>>, events |-> <<>>, raised |-> FALSE]

NoOp == [op |-> "none", raised |-> FALSE, seen |-> {}, clean |-> NoClean,
         interrupted |-> {}]

\* No tick yet: no invocation of the callback.
NoCb == [cb |-> {}, running |-> <<>>, file |-> FileMissing, raised |-> FALSE]

\* MainWindow before its first refresh: empty cache, labels at 0.
NoCache == [n \in {} |-> [today |-> 0, week |-> 0, total |-> 0,
                          last_open |-> Null, last_close |-> Null]]
NoView == [op |-> "none", aborted |-> FALSE, early |-> FALSE, cache |-> NoCache,
           today_total |-> 0, week_total |-> 0, warns |-> <<>>]

\* No scan recorded.
NoScan == [e \in Exes |-> 0]

\* The tray before its menu was ever shown.
NoTray == [op |-> "none", day |-> 0, raised |-> FALSE, ranking |-> <<>>,
           saw |-> "none"]

Init ==
  /\ pc = "idle"
  /\ games \in Catalogs
  /\ running = <<>>
  /\ clock = 0
  /\ file \in InitFiles
  /\ events = <<>>
  /\ merges = <<>>
  /\ last = NoOp
  /\ runStarts = [e \in Exes |-> 0]
  /\ openStarts = [e \in Exes |-> 0]
  /\ startedAt = [e \in Exes |-> Null]
  /\ stopInfo = <<>>
  /\ faults = 0
  /\ ledger = [k \in {} |-> [base |-> 0, sum |-> 0, n |-> 0]]
  /\ nominal = TRUE
  /\ view = NoView
  /\ tray = NoTray
  /\ cbref = NoCb
  /\ scan = NoScan

InitFileAlwaysWritten(f, wr) == WriteText(f, EmptyDoc, wr)

\* The file after ProcessWatcher.__init__, lines 46-49: only a missing file
\* is written.
InitFile(f, wr) == IF f.kind = "missing" THEN WriteText(f, EmptyDoc, wr) ELSE f

RunningKept(run) == run

\* The running of a new watcher, line 41: empty, whatever the watcher of an
\* earlier run of the host held.
NewRunning(run) == <<>>

\* The host process starts (again) and start_monitor constructs the watcher
\* over the catalog: ProcessWatcher.__init__.  wr is the outcome of the
\* write of a missing file; a failure raises and no watcher exists.
Construct(wr) ==
  /\ wr = "ok" \/ (file.kind = "missing" /\ faults < MaxFaults)
  /\ faults' = IF wr = "ok" THEN faults ELSE faults + 1
  /\ pc' = IF wr = "ok" THEN "tick" ELSE "idle"
  /\ running' = NewRunning(running)
  /\ file' = InitFile(file, wr)
  /\ events' = IF wr = "ok" THEN <<Event("init", "", Cardinality(DOMAIN games))>>
               ELSE <<>>
  /\ merges' = <<>>
  /\ last' = [op |-> "init", raised |-> wr # "ok", seen |-> {},
               clean |-> NoClean, interrupted |-> Keys(running)]
  /\ runStarts' = [e \in Exes |-> 0]
  /\ openStarts' = [e \in Exes |-> 0]
  /\ startedAt' = [e \in Exes |-> Null]
  /\ stopInfo' = <<>>
  /\ cbref' = NoCb
  /\ UNCHANGED <<games, clock, ledger, nominal, view, tray, scan>>

\* time.sleep(1) of the polling loop, lines 86 and 94: at least one second
\* passes, d clock units in all.
Sleep(d) ==
  /\ pc = "sleep"
  /\ clock + d <= MaxClock
  /\ clock' = clock + d
  /\ pc' = "tick"
  /\ events' = <<>>
  /\ merges' = <<>>
  /\ stopInfo' = <<>>
  /\ last' = [op |-> "sleep", raised |-> FALSE, seen |-> {}, clean |-> NoClean,
               interrupted |-> {}]
  /\ cbref' = NoCb
  /\ UNCHANGED <<games, running, file, runStarts, openStarts, startedAt, faults,
                 ledger, nominal, view, tray, scan>>

CountEv(evs, t, e) ==
  Cardinality({ i \in DOMAIN evs : evs[i].type = t /\ evs[i].exe = e })

\* The clock reading logged by the last start event of e in evs, else old.
LastStart(evs, e, old) ==
  LET is == { i \in DOMAIN evs : evs[i].type = "start" /\ evs[i].exe = e }
  IN  IF is = {} THEN old
      ELSE evs[CHOOSE i \in is : \A j \in is : j <= i].val

\* The read and write failures among the outcomes io.
NFaults(io) ==
  Cardinality({ i \in DOMAIN io : io[i].rd # "ok" })
    + Cardinality({ i \in DOMAIN io : io[i].wr # "ok" })

\* A _record call that found the store well formed where it touches it and
\* whose read and write did not fail.
NominalMerge(m) == m.shapeOk /\ m.rd = "ok" /\ m.wr = "ok"

\* The ledger after the _record calls reps[i..].
RECURSIVE LedgerAfter(_, _, _)
LedgerAfter(led, reps, i) ==
  IF i > Len(reps) THEN led
  ELSE
    LET m == reps[i]
        k == <<m.day, m.name>>
        old == IF k \in DOMAIN led THEN led[k]
               ELSE [base |-> IF m.before.kind = "ok" THEN m.before.total ELSE 0,
                     sum |-> 0, n |-> 0]
    IN  LedgerAfter(Put(led, k, [old EXCEPT !.sum = @ + m.dur, !.n = @ + 1]),
                    reps, i + 1)

\* The processes of a scan whose inspection succeeds and yields a path.
Inspected(procs) == SelectSeq(procs, LAMBDA p : p.fault = "none" /\ p.exe # "")

\* What tick yields on the scan without the processes it has to skip; r is
\* what it yields on the scan itself.
CleanTick(procs, io, cb, r) ==
  LET r0 == IF Inspected(procs) = procs THEN r
            ELSE TickResult(games, running, file, clock, Inspected(procs), io, cb)
  IN  [seen |-> r0.seen, running |-> r0.running, file |-> r0.file,
       merges |-> r0.merges, events |-> r0.events, raised |-> r0.raised]

AfterTickUncaught(raised, cbRaises) == IF raised THEN "dead" ELSE "sleep"

\* Where the loop is after tick returned or raised, lines 86-94: at a sleep,
\* unless the except clause itself is left by an exception of log_fn.
AfterTick(raised, cbRaises) == IF raised /\ cbRaises THEN "dead" ELSE "sleep"

\* One pass of the polling loop, lines 82-92: global_watcher.tick(), and
\* the except clause, which hands the message to log_fn without a guard, so
\* that a callback that raises there ends start_monitor.  cb holds the
\* invocations on which the callback raises.
TickCore(procs, io, cb) ==
  /\ pc = "tick"
  /\ faults + NFaults(io) <= MaxFaults
  /\ faults' = faults + NFaults(io)
  /\ \E r \in {TickResult(games, running, file, clock, procs, io, cb)} :
       /\ pc' = AfterTick(r.raised, (Len(r.events) + 1) \in cb)
       /\ cbref' = LET r0 == IF cb = {} THEN r
                             ELSE TickResult(games, running, file, clock, procs,
                                             io, {})
                   IN  [cb |-> cb \cap (1..(Len(r.events) + 1)),
                        running |-> r0.running, file |-> r0.file,
                        raised |-> r0.raised]
       /\ running' = r.running
       /\ file' = r.file
       /\ events' = IF r.raised THEN Append(r.events, Event("err_tick", "", 0))
                    ELSE r.events
       /\ merges' = r.merges
       /\ last' = [op |-> "tick", raised |-> r.raised, seen |-> r.seen,
                    clean |-> CleanTick(procs, io, cb, r),
                    interrupted |-> IF last.op = "init"
                                    THEN last.interrupted \cap r.seen
                                    ELSE {}]
       /\ runStarts' = [e \in Exes |->
            IF e \in r.seen
            THEN Min(MaxCount, runStarts[e] + CountEv(r.events, "start", e))
            ELSE 0]
       /\ openStarts' = [e \in Exes |->
            LET n == Min(MaxCount, openStarts[e] + CountEv(r.events, "start", e))
                k == CountEv(r.events, "stop", e)
            IN  IF k > n THEN 0 ELSE n - k]
       /\ startedAt' = [e \in Exes |->
            IF CountEv(r.events, "stop", e) > 0 THEN Null
            ELSE LastStart(r.events, e, startedAt[e])]
       /\ stopInfo' = [i \in DOMAIN r.merges |->
            [pending |-> openStarts[r.merges[i].exe],
             startedAt |-> startedAt[r.merges[i].exe]]]
       /\ ledger' = IF nominal THEN LedgerAfter(ledger, r.merges, 1)
                    ELSE [k \in {} |-> [base |-> 0, sum |-> 0, n |-> 0]]
       /\ nominal' = (nominal /\ \A i \in DOMAIN r.merges : NominalMerge(r.merges[i]))
  /\ UNCHANGED <<games, clock>>

\* The pass of the loop while the presentation does nothing.
TickWith(procs, io, cb) == TickCore(procs, io, cb) /\ UNCHANGED <<view, tray, scan>>

\* The pass of the loop in the program as main.py wires it: log_fn is
\* MainWindow.append_log, which catches what its emit raises.
Tick(procs, io) == TickWith(procs, io, {})

Next ==
  \/ \E wr \in WriteOutcomes : Construct(wr)
  \/ \E d \in TicksPerSec..(TicksPerSec + 1) : Sleep(d)
  \/ \E procs \in Scans :
       \E io \in [1..NStops(games, running, procs) -> IOs] : Tick(procs, io)

Spec == Init /\ [][Next]_vars

\* ------------------------------------------------------- the loop, fairly
\* The polling loop over a store that is well formed or has a record that
\* makes _record raise, with the two games running or not and no I/O
\* failure.  The loop's thread is scheduled and time.sleep returns.
LoopFiles ==
  {Dump([d \in {0} |-> DayDict([n \in Names |->
        IF n = "Game" THEN Rec("ok", 2, 0, 1, FALSE) ELSE Rec("ok", 1, 0, 0, TRUE)])]),
   Dump([d \in {0, 1} |-> DayDict([n \in Names |->
        IF n = "Game" THEN Rec("scalar", 5, Null, Null, FALSE)
        ELSE Rec("ok", 1, 0, 0, FALSE)])])}

LoopScans ==
  { sc \in Scans : \A i \in DOMAIN sc :
      /\ sc[i].fault = "none"
      /\ BaseNameLower(sc[i].exe) \in Exes
      /\ \A j \in DOMAIN sc : j < i => sc[j].exe # sc[i].exe }

InitLoop ==
  /\ pc = "idle"
  /\ games \in Catalogs
  /\ running = <<>>
  /\ clock = 0
  /\ file \in LoopFiles
  /\ events = <<>>
  /\ merges = <<>>
  /\ last = NoOp
  /\ runStarts = [e \in Exes |-> 0]
  /\ openStarts = [e \in Exes |-> 0]
  /\ startedAt = [e \in Exes |-> Null]
  /\ stopInfo = <<>>
  /\ faults = 0
  /\ ledger = [k \in {} |-> [base |-> 0, sum |-> 0, n |-> 0]]
  /\ nominal = TRUE
  /\ view = NoView
  /\ tray = NoTray
  /\ cbref = NoCb
  /\ scan = NoScan

LoopStart == pc = "idle" /\ Construct("ok")

LoopSleep == \E d \in TicksPerSec..(TicksPerSec + 1) : Sleep(d)

LoopTick ==
  \E procs \in LoopScans :
    Tick(procs, [i \in 1..NStops(games, running, procs) |->
                   [rd |-> "ok", wr |-> "ok"]])

NextLoop == LoopStart \/ LoopSleep \/ LoopTick

\* A step of the polling loop that calls tick: control leaves the call.
TickStep == pc = "tick" /\ pc' \in {"sleep", "dead"}

\* time.sleep returns, and the call of tick returns or raises: control does
\* not stay in either for ever.
SpecLoop ==
  InitLoop /\ [][NextLoop]_vars /\ WF_vars(LoopSleep) /\ WF_pc(TickStep)

\* --------------------------------------------------- a callback that raises
\* The watcher with an injected log callback that may raise, over a store
\* that is well formed or malformed.
LogFiles ==
  {Dump([d \in {0} |-> DayDict([n \in Names |->
        IF n = "Game" THEN Rec("ok", 2, 0, 1, FALSE) ELSE Rec("ok", 1, 0, 0, TRUE)])]),
   Dump([d \in {0} |-> DayDict([n \in Names |->
        IF n = "Game" THEN Rec("scalar", 5, Null, Null, FALSE)
        ELSE Rec("ok", 1, 0, 0, FALSE)])])}

InitLog ==
  /\ pc = "idle"
  /\ games \in Catalogs
  /\ running = <<>>
  /\ clock = 0
  /\ file \in LogFiles
  /\ events = <<>>
  /\ merges = <<>>
  /\ last = NoOp
  /\ runStarts = [e \in Exes |-> 0]
  /\ openStarts = [e \in Exes |-> 0]
  /\ startedAt = [e \in Exes |-> Null]
  /\ stopInfo = <<>>
  /\ faults = 0
  /\ ledger = [k \in {} |-> [base |-> 0, sum |-> 0, n |-> 0]]
  /\ nominal = TRUE
  /\ view = NoView
  /\ tray = NoTray
  /\ cbref = NoCb
  /\ scan = NoScan

NextLog ==
  \/ (pc = "idle" /\ Construct("ok"))
  \/ Sleep(TicksPerSec)
  \/ \E procs \in Scans :
       \E io \in [1..NStops(games, running, procs) -> IOs] :
         \E cb \in SUBSET (1..MaxCb) : TickWith(procs, io, cb)

SpecLog == InitLog /\ [][NextLog]_vars

\* ------------------------------------------------------------ presentation
\* datetime.isocalendar().week of a day: the week number within its year.
WeekOf(day) == (day \div WeekLen) % YearWeeks

\* The elements of a set of integers in ascending order.
RECURSIVE Ascending(_)
Ascending(S) ==
  IF S = {} THEN <<>>
  ELSE LET m == CHOOSE x \in S : \A y \in S : x <= y
       IN  <<m>> \o Ascending(S \ {m})

\* The order in which a date entry lists its games.
NameOrder == <<"Game", "Other">>

Warn(t, k) == [type |-> t, key |-> k]

\* refresh, lines 310-343: one game record of one date entry.
RefreshRecord(acc, day, name, info, today) ==
  IF info.kind = "scalar" THEN [acc EXCEPT !.warns = Append(@, Warn("bad_game", name))]
  ELSE IF info.kind = "nototal"
       THEN [acc EXCEPT !.warns = Append(@, Warn("no_total", name))]
  ELSE IF info.kind = "badtotal" THEN [acc EXCEPT !.raised = TRUE]
  ELSE
    LET g0 == IF name \in DOMAIN acc.cache THEN acc.cache[name]
              ELSE [today |-> 0, week |-> 0, total |-> 0,
                    last_open |-> info.last_open, last_close |-> info.last_close]
        isToday == day = today
        isWeek == WeekOf(day) = WeekOf(today)
        g1 == [g0 EXCEPT !.total = @ + info.total,
                         !.today = IF isToday THEN @ + info.total ELSE @,
                         !.week = IF isWeek THEN @ + info.total ELSE @]
    IN  [acc EXCEPT !.cache = Put(@, name, g1),
                    !.today_total = IF isToday THEN @ + info.total ELSE @,
                    !.week_total = IF isWeek THEN @ + info.total ELSE @]

\* refresh, lines 310-343: the games of one date entry, in order.
RECURSIVE RefreshGames(_, _, _, _, _)
RefreshGames(acc, day, gs, i, today) ==
  IF acc.raised \/ i > Len(NameOrder) THEN acc
  ELSE IF NameOrder[i] \notin DOMAIN gs THEN RefreshGames(acc, day, gs, i + 1, today)
  ELSE RefreshGames(RefreshRecord(acc, day, NameOrder[i], gs[NameOrder[i]], today),
                    day, gs, i + 1, today)

\* refresh, lines 300-343: the date entries, in order.  strptime raises on
\* a key that is no date, after the check that the entry is a mapping.
RECURSIVE RefreshDays(_, _, _, _, _)
RefreshDays(acc, days, ks, i, today) ==
  IF acc.raised \/ i > Len(ks) THEN acc
  ELSE LET d == ks[i]
           daily == days[d]
       IN  IF daily.kind # "dict"
           THEN RefreshDays([acc EXCEPT !.warns = Append(@, Warn("bad_day", d))],
                            days, ks, i + 1, today)
           ELSE IF d = BadKey THEN [acc EXCEPT !.raised = TRUE]
           ELSE RefreshDays(RefreshGames(acc, d, daily.games, 1, today),
                            days, ks, i + 1, today)

\* MainWindow.refresh on file content f, on day today, from view v.
RefreshView(v, f, today) ==
  IF f.kind = "missing"
  THEN [v EXCEPT !.op = "refresh", !.aborted = FALSE, !.early = TRUE,
                 !.warns = <<Warn("no_file", 0)>>]
  ELSE IF f.kind # "json"
  THEN [v EXCEPT !.op = "refresh", !.aborted = FALSE, !.early = TRUE,
                 !.warns = <<Warn("read_error", 0)>>]
  ELSE IF f.top # "dict"
  THEN [v EXCEPT !.op = "refresh", !.aborted = TRUE, !.early = FALSE, !.warns = <<>>]
  ELSE
    LET acc0 == [raised |-> FALSE, cache |-> NoCache, today_total |-> 0,
                 week_total |-> 0, warns |-> <<>>]
        r == RefreshDays(acc0, f.days, Ascending(DOMAIN f.days), 1, today)
    IN  IF r.raised
        THEN [v EXCEPT !.op = "refresh", !.aborted = TRUE, !.early = FALSE,
                       !.warns = r.warns]
        ELSE [op |-> "refresh", aborted |-> FALSE, early |-> FALSE,
              cache |-> r.cache, today_total |-> r.today_total,
              week_total |-> r.week_total, warns |-> r.warns]

\* Date entries and documents the window may find in the file.
UIDayEntries ==
  { DayScalar,
    DayDict(NoGames),
    DayDict([n \in {"Game"} |-> Rec("ok", 2, 0, 1, FALSE)]),
    DayDict([n \in Names |-> IF n = "Game" THEN Rec("scalar", 5, Null, Null, FALSE)
                                        ELSE Rec("ok", 1, 0, 0, FALSE)]),
    DayDict([n \in Names |-> IF n = "Game" THEN Rec("nototal", 0, 0, 0, FALSE)
                                        ELSE Rec("ok", 3, Null, Null, TRUE)]),
    DayDict([n \in Names |-> IF n = "Game" THEN Rec("badtotal", 0, 0, 0, FALSE)
                                        ELSE Rec("ok", 1, 0, 0, FALSE)]) }

UIDays == {BadKey, 0, 1, WeekLen * YearWeeks}

UIFiles ==
  {FileMissing, FileEmpty, FileGarbage, FileList}
    \cup { Dump(d) : d \in UNION { [ks -> UIDayEntries] : ks \in SUBSET UIDays } }

\* The window alone: the file is what some run of the watcher, or the user,
\* left; the QTimer calls refresh again and again as the days pass.
InitUI ==
  /\ pc = "idle"
  /\ games \in Catalogs
  /\ running = <<>>
  /\ clock \in {0, DayLen * TicksPerSec}
  /\ file \in UIFiles
  /\ events = <<>>
  /\ merges = <<>>
  /\ last = NoOp
  /\ runStarts = [e \in Exes |-> 0]
  /\ openStarts = [e \in Exes |-> 0]
  /\ startedAt = [e \in Exes |-> Null]
  /\ stopInfo = <<>>
  /\ faults = 0
  /\ ledger = [k \in {} |-> [base |-> 0, sum |-> 0, n |-> 0]]
  /\ nominal = TRUE
  /\ view = NoView
  /\ tray = NoTray
  /\ cbref = NoCb
  /\ scan = NoScan

\* self.timer.timeout -> refresh.
Refresh ==
  /\ view' = RefreshView(view, file, DateOf(clock))
  /\ UNCHANGED <<pc, games, running, clock, file, events, merges, last, runStarts,
                 openStarts, startedAt, stopInfo, faults, ledger, nominal, tray,
                 cbref, scan>>

\* A day passes between two refreshes.
NextDay ==
  /\ clock + DayLen * TicksPerSec <= MaxUIClock
  /\ clock' = clock + DayLen * TicksPerSec
  /\ UNCHANGED <<pc, games, running, file, events, merges, last, runStarts,
                 openStarts, startedAt, stopInfo, faults, ledger, nominal, view,
                 tray, cbref, scan>>

FormatPlaytimeKeepsZeroSecs(isInt, seconds) ==
  IF ~isInt \/ seconds < 0 THEN <<<<0, "s">>>>
  ELSE IF seconds \div 3600 > 0
  THEN <<<<seconds \div 3600, "h">>, <<(seconds % 3600) \div 60, "m">>,
         <<seconds % 60, "s">>>>
  ELSE IF seconds \div 60 > 0
  THEN <<<<seconds \div 60, "m">>, <<seconds % 60, "s">>>>
  ELSE <<<<seconds, "s">>>>

\* format_playtime: the text as its <<number, unit>> parts; "0s" for a value
\* that is no int or is negative.
FormatPlaytime(isInt, seconds) ==
  IF ~isInt \/ seconds < 0 THEN <<<<0, "s">>>>
  ELSE LET hours == seconds \div 3600
           minutes == (seconds % 3600) \div 60
           secs == (seconds % 3600) % 60
       IN  IF hours > 0
           THEN IF secs = 0 THEN <<<<hours, "h">>, <<minutes, "m">>>>
                ELSE <<<<hours, "h">>, <<minutes, "m">>, <<secs, "s">>>>
           ELSE IF minutes > 0
           THEN IF secs = 0 THEN <<<<minutes, "m">>>>
                ELSE <<<<minutes, "m">>, <<secs, "s">>>>
           ELSE <<<<secs, "s">>>>

\* sorted(games.items(), key=total, reverse=True) over the names ns of gs
\* whose totals are ints: descending totals, ties in the order of the entry.
RECURSIVE SortedByTotal(_, _)
SortedByTotal(gs, ns) ==
  IF ns = {} THEN <<>>
  ELSE LET pos(n) == CHOOSE i \in DOMAIN NameOrder : NameOrder[i] = n
           top == CHOOSE n \in ns : \A m \in ns :
                    \/ gs[n].total > gs[m].total
                    \/ (gs[n].total = gs[m].total /\ pos(n) <= pos(m))
       IN  <<top>> \o SortedByTotal(gs, ns \ {top})

\* get_today_ranking on file content f on day today.  The sort key reads
\* x[1]["total"] of every record before the loop validates it: it raises on
\* a record that is no mapping or has no total, and the comparison raises on
\* a total that is no number next to one that is.  Of what read_text and
\* json.loads raise, JSONDecodeError and OSError are caught, the
\* UnicodeDecodeError of bytes that are not UTF-8 is not.
GetTodayRanking(f, today) ==
  IF f.kind = "undecodable"
  THEN [op |-> "ranking", day |-> today, raised |-> TRUE, ranking |-> <<>>]
  ELSE IF f.kind # "json" THEN [op |-> "ranking", day |-> today, raised |-> FALSE, ranking |-> <<>>]
  ELSE IF f.top # "dict" THEN [op |-> "ranking", day |-> today, raised |-> TRUE, ranking |-> <<>>]
  ELSE IF today \notin DOMAIN f.days
  THEN [op |-> "ranking", day |-> today, raised |-> FALSE, ranking |-> <<>>]
  ELSE IF f.days[today].kind # "dict"
  THEN [op |-> "ranking", day |-> today, raised |-> TRUE, ranking |-> <<>>]
  ELSE
    LET gs == f.days[today].games
        ns == DOMAIN gs
        keyRaises == \E n \in ns : gs[n].kind \in {"scalar", "nototal"}
        cmpRaises == /\ \E n \in ns : gs[n].kind = "badtotal"
                     /\ \E n \in ns : gs[n].kind = "ok"
        order == IF \A n \in ns : gs[n].kind = "ok"
                 THEN SortedByTotal(gs, ns)
                 ELSE SelectSeq(NameOrder, LAMBDA n : n \in ns)
    IN  IF keyRaises \/ cmpRaises
        THEN [op |-> "ranking", day |-> today, raised |-> TRUE, ranking |-> <<>>]
        ELSE [op |-> "ranking", day |-> today, raised |-> FALSE,
              ranking |-> [i \in DOMAIN order |->
                 [name |-> order[i],
                  time |-> FormatPlaytime(gs[order[i]].kind = "ok",
                                          gs[order[i]].total)]]]

\* What update_menu gets from get_today_ranking on file content f, with the
\* kind of content it found.
MenuSaw(g, kind) ==
  [op |-> g.op, day |-> g.day, raised |-> g.raised, ranking |-> g.ranking,
   saw |-> kind]

MenuRead(f, today) == MenuSaw(GetTodayRanking(f, today), f.kind)

TrayWatcherIsGlobal(constructed) == constructed

\* self.watcher of the tray: TrayIcon(watcher=global_watcher) is built in
\* main.py line 103 before start_monitor runs, when global_watcher is None,
\* whether or not a watcher is constructed later.
TrayWatcher(constructed) == FALSE

\* TrayIcon.log, lines 108-122: the text goes to the console and the window;
\* it is handed to watcher._log only if the tray holds a watcher.
TrayLog(evs) ==
  IF TrayWatcher(pc # "idle") THEN Append(evs, Event("tray", "", 0)) ELSE evs

\* The tray menu is about to show: update_menu logs and reads the ranking.
UpdateMenu ==
  /\ events' = TrayLog(events)
  /\ tray' = MenuRead(file, DateOf(clock))
  /\ UNCHANGED <<pc, games, running, clock, file, merges, last, runStarts,
                 openStarts, startedAt, stopInfo, faults, ledger, nominal, view,
                 cbref, scan>>

NextUI == Refresh \/ NextDay \/ UpdateMenu

SpecUI == InitUI /\ [][NextUI]_vars

\* ---------------------------------------------------------- configuration
\* config.json as start_monitor finds it: a mapping with "steam_path"
\* ("ok"), no file ("missing"), text that is no JSON ("unparseable"), JSON
\* that is no mapping ("nondict"), a mapping without "steam_path" ("nokey").
ConfigKinds == {"ok", "missing", "unparseable", "nondict", "nokey"}

\* Lines 30-56 of start_monitor on a configuration that is not "ok": the
\* log lines, and whether an exception leaves start_monitor.  The try has
\* handlers for FileNotFoundError and KeyError only; json.load raises
\* JSONDecodeError, and config["steam_path"] on a value that is no mapping
\* raises TypeError.
ReadConfig(cfg) ==
  CASE cfg = "missing" ->
         [raised |-> FALSE, events |-> <<Event("err_config_missing", "", 0)>>]
    [] cfg = "nokey" ->
         [raised |-> FALSE, events |-> <<Event("err_config_key", "", 0)>>]
    [] OTHER -> [raised |-> TRUE, events |-> <<>>]

\* start_monitor up to its loop on configuration cfg: with a configuration
\* that is "ok" the watcher is constructed, else start_monitor is left.
StartMonitor(cfg) ==
  /\ pc = "idle"
  /\ IF cfg = "ok" THEN Construct("ok")
     ELSE /\ pc' = "ended"
          /\ events' = ReadConfig(cfg).events
          /\ last' = [op |-> "config", raised |-> ReadConfig(cfg).raised,
                       seen |-> {}, clean |-> NoClean, interrupted |-> {}]
          /\ UNCHANGED <<games, running, clock, file, merges, runStarts,
                         openStarts, startedAt, stopInfo, faults, ledger, nominal,
                         view, tray, cbref, scan>>

NextStart ==
  \/ \E cfg \in ConfigKinds : StartMonitor(cfg)
  \/ LoopSleep
  \/ LoopTick

SpecStart == InitLoop /\ [][NextStart]_vars

\* ------------------------------------- the watcher and the presentation
\* The monitor thread and the Qt thread side by side: the loop polls while
\* the window refreshes and the tray menu is opened.
AppFiles == {FileMissing} \cup LoopFiles

InitApp ==
  /\ pc = "idle"
  /\ games \in Catalogs
  /\ running = <<>>
  /\ clock = 0
  /\ file \in AppFiles
  /\ events = <<>>
  /\ merges = <<>>
  /\ last = NoOp
  /\ runStarts = [e \in Exes |-> 0]
  /\ openStarts = [e \in Exes |-> 0]
  /\ startedAt = [e \in Exes |-> Null]
  /\ stopInfo = <<>>
  /\ faults = 0
  /\ ledger = [k \in {} |-> [base |-> 0, sum |-> 0, n |-> 0]]
  /\ nominal = TRUE
  /\ view = NoView
  /\ tray = NoTray
  /\ cbref = NoCb
  /\ scan = NoScan

\* What a read finds that runs while write_text of _save replaces content
\* f1 by f2: f1 before the file is opened, nothing once it is truncated, a
\* part of the text while it is written (no JSON, and no UTF-8 where the
\* part ends inside a character), f2 in the end.
MidSave(f1, f2) == {f1, FileEmpty, FileGarbage, FileCut, f2}

\* The tick step at hand wrote the file.
Saved == \E j \in DOMAIN merges' : ~merges'[j].raised

\* MainWindow.refresh on the Qt thread while the monitor thread saves.
RacingRefresh ==
  /\ Saved
  /\ \E mid \in MidSave(file, file') :
       view' = RefreshView(view, mid, DateOf(clock))
  /\ tray' = tray

\* update_menu on the Qt thread while the monitor thread saves.
RacingMenu ==
  /\ Saved
  /\ TrayLog(events) = events
  /\ \E mid \in MidSave(file, file') :
       tray' = MenuRead(mid, DateOf(clock))
  /\ view' = view

\* A pass of the loop, in the program as wired and with no I/O failure,
\* while the Qt thread is idle or reads the store.
AppTick ==
  \E procs \in LoopScans :
    /\ TickCore(procs, [i \in 1..NStops(games, running, procs) |->
                          [rd |-> "ok", wr |-> "ok"]], {})
    /\ \/ UNCHANGED <<view, tray>>
       \/ RacingRefresh
       \/ RacingMenu
    /\ scan' = scan

NextApp ==
  \/ LoopStart
  \/ LoopSleep
  \/ AppTick
  \/ Refresh
  \/ UpdateMenu

SpecApp == InitApp /\ [][NextApp]_vars

\* ------------------------------------- several processes of one file name
\* Scans of up to MaxProcs + 1 processes of the games, two of them with
\* the file name a.exe under different paths, each any number of times.
ProcScans ==
  UNION { [1..n -> { Proc("C:/Games/A/A.EXE", "none"), Proc("D:/Old/a.exe", "none"),
                     Proc("C:/Games/B/b.exe", "none") }] : n \in 0..(MaxProcs + 1) }

\* The processes of the scan procs per catalog file name.
Multiplicity(procs) ==
  [e \in Exes |->
     Cardinality({ i \in DOMAIN procs : BaseNameLower(procs[i].exe) = e })]

\* A pass of the loop with no I/O failure, with the scan recorded.
ProcsTick ==
  \E procs \in ProcScans :
    /\ TickCore(procs, [i \in 1..NStops(games, running, procs) |->
                          [rd |-> "ok", wr |-> "ok"]], {})
    /\ scan' = Multiplicity(procs)
    /\ UNCHANGED <<view, tray>>

NextProcs == LoopStart \/ LoopSleep \/ ProcsTick

SpecProcs == InitLoop /\ [][NextProcs]_vars

\* ------------------------------------------------------- format_playtime
DigitChars == <<"0", "1", "2", "3", "4", "5", "6", "7", "8", "9">>

\* str(n) of an int n >= 0, as the f-strings of format_playtime render it:
\* its decimal digits, one character each.
RECURSIVE Digits(_)
Digits(n) ==
  IF n < 10 THEN <<DigitChars[n + 1]>>
  ELSE Append(Digits(n \div 10), DigitChars[(n % 10) + 1])

\* The string an f-string of format_playtime returns for the parts ps, as
\* its characters.
RECURSIVE Rendered(_)
Rendered(ps) ==
  IF ps = <<>> THEN <<>>
  ELSE Digits(Head(ps)[1]) \o <<Head(ps)[2]>> \o Rendered(Tail(ps))

\* The store with one record of today, whose total is the int s or, for
\* isInt false, a value that is no int.
TotalFile(isInt, s) ==
  Dump([d \in {0} |-> DayDict([n \in {"Game"} |->
        Rec(IF isInt THEN "ok" ELSE "badtotal", s, Null, Null, FALSE)])])

\* format_playtime alone: the tray formats the total of today's record,
\* whatever value the file holds for it.
InitFmt ==
  /\ pc = "idle"
  /\ games \in Catalogs
  /\ running = <<>>
  /\ clock = 0
  /\ file \in { TotalFile(b, s) : b \in BOOLEAN, s \in (-MaxBelowZero)..MaxSeconds }
  /\ events = <<>>
  /\ merges = <<>>
  /\ last = NoOp
  /\ runStarts = [e \in Exes |-> 0]
  /\ openStarts = [e \in Exes |-> 0]
  /\ startedAt = [e \in Exes |-> Null]
  /\ stopInfo = <<>>
  /\ faults = 0
  /\ ledger = [k \in {} |-> [base |-> 0, sum |-> 0, n |-> 0]]
  /\ nominal = TRUE
  /\ view = NoView
  /\ tray = NoTray
  /\ cbref = NoCb
  /\ scan = NoScan

NextFmt == UpdateMenu

SpecFmt == InitFmt /\ [][NextFmt]_vars

\* ------------------------------------------------------------------ claims
StopEvents == SelectSeq(events, LAMBDA ev : ev.type = "stop")

\* C1: within one contiguous run of scans that observe a catalog file name,
\* tick emits exactly one start event for it, on the first tick of the run,
\* and none on the later ticks of the run.  (runStarts counts the start
\* events of the current run; a tick that does not observe the name ends the
\* run.)  The code breaks it when _record raises: tick is left with the
\* later stopped executables still in running, and their next run starts
\* without a start event.
C1_OneStartPerRun ==
  \A e \in Exes :
    /\ runStarts[e] <= 1
    /\ (last.op = "tick" /\ e \in last.seen) => runStarts[e] = 1
    /\ (last.op = "tick" /\ e \notin last.seen) => CountEv(events, "start", e) = 0

\* C2: every stop event is preceded by exactly one start event of the same
\* file name that no earlier stop has consumed, and the duration handed to
\* the store merge is the clock reading of the stop tick minus the reading
\* logged by that start event, truncated to whole seconds.
C2_StopPairsWithStart ==
  /\ Len(StopEvents) = Len(merges)
  /\ \A i \in DOMAIN merges :
       /\ StopEvents[i].exe = merges[i].exe
       /\ StopEvents[i].val = merges[i].dur
       /\ stopInfo[i].pending = 1
       /\ merges[i].now = clock
       /\ merges[i].start = stopInfo[i].startedAt
       /\ merges[i].dur * TicksPerSec <= clock - stopInfo[i].startedAt
       /\ clock - stopInfo[i].startedAt < (merges[i].dur + 1) * TicksPerSec

\* A stop whose session did not last a whole number of seconds.
C2_Witness ==
  \E i \in DOMAIN merges :
    /\ stopInfo[i].pending = 1
    /\ merges[i].dur >= 1
    /\ (clock - stopInfo[i].startedAt) % TicksPerSec # 0

\* A step that constructs the watcher.
ConstructStep == last'.op = "init"

\* The record of report m after its merge is its record before (total 0 if
\* there was none) plus the session, with both timestamps set.
Merged(m) ==
  /\ m.after.kind = "ok"
  /\ m.after.total = (IF m.before.kind = "none" THEN 0 ELSE m.before.total) + m.dur
  /\ m.after.last_open # Null
  /\ m.after.last_close # Null

\* What C3 says of a tick step for the file name e that was in running and
\* is absent from the scan.
StopHandled(e) ==
  /\ e \notin Keys(running')
  /\ CountEv(events', "stop", e) = 1
  /\ \E i \in DOMAIN merges' :
       LET m == merges'[i]
       IN  /\ m.exe = e
           /\ m.name = games[e]
           /\ m.day = DateOf(clock)
           /\ Merged(m)
           /\ (\A j \in DOMAIN merges' :
                 (j > i) => <<merges'[j].day, merges'[j].name>> # <<m.day, m.name>>)
                => DiskRec(file', m.day, m.name) = m.after

RecKeys(f) ==
  IF f.kind = "json" /\ f.top = "dict"
  THEN UNION { { <<d, n>> : n \in DOMAIN f.days[d].games } :
               d \in { x \in DOMAIN f.days : f.days[x].kind = "dict" } }
  ELSE {}

\* C5: the total of a (date, game) record of the file never decreases from
\* one state to the next, whatever the outcomes of load and save.
C5_TotalNeverDecreases ==
  [][\A k \in RecKeys(file) \cap RecKeys(file') :
       (DiskRec(file, k[1], k[2]).kind = "ok" /\ DiskRec(file', k[1], k[2]).kind = "ok")
         => DiskRec(file', k[1], k[2]).total >= DiskRec(file, k[1], k[2]).total]_vars

\* C6: no step of the watcher deletes or changes a record of the file other
\* than the records under (today, game) of the sessions it merges, also when
\* load fails.
C6_OtherRecordsKept ==
  [][\A k \in RecKeys(file) :
       (~(TickStep /\ \E i \in DOMAIN merges' : k = <<merges'[i].day, merges'[i].name>>))
         => (k \in RecKeys(file') /\ DiskRec(file', k[1], k[2]) = DiskRec(file, k[1], k[2]))]_vars

\* C7: whatever the file holds that is no document (missing, empty,
\* unparseable, or JSON that is not a mapping), load returns the empty
\* document and the _record call that loaded it does not raise.
C7_LoadYieldsEmptyDocument ==
  \A i \in DOMAIN merges :
    (merges[i].fkind # "json" \/ merges[i].ftop # "dict")
      => (merges[i].gotEmpty /\ ~merges[i].raised)

\* The _record calls of the last tick whose save failed.
FailedSaves == { i \in DOMAIN merges : ~merges[i].raised /\ merges[i].wr # "ok" }

SaveErrorsLogged ==
  Cardinality({ i \in DOMAIN events : events[i].type = "err_save" })
    = Cardinality(FailedSaves)

\* A failed save does not leave tick: if tick raised, the _record call that
\* raised is the last one and it raised in the merge, before the save.
SaveDoesNotRaise ==
  /\ (last.op = "tick" /\ last.raised)
       => (merges # <<>> /\ merges[Len(merges)].raised)
  /\ \A i \in DOMAIN merges : merges[i].raised => i = Len(merges)

\* C8 as stated: a save that fails logs an error, does not raise, and leaves
\* the file as it was before the save.
C8_FailedSaveKeepsFile ==
  /\ SaveErrorsLogged
  /\ SaveDoesNotRaise
  /\ \A i \in FailedSaves : merges[i].fileSame

\* C8 amended: a save that fails logs an error and does not raise; the file
\* is as before when the failure precedes the opening of the file for
\* writing, and is left without parseable content when the write fails after
\* the opening truncated it.
C8_FailedSave ==
  /\ SaveErrorsLogged
  /\ SaveDoesNotRaise
  /\ \A i \in FailedSaves :
       /\ merges[i].wr = "open_fail" => merges[i].fileSame
       /\ merges[i].wr = "trunc" => merges[i].fkind2 = "empty"

\* A save failed at the opening over a file that held the record.
C8_Witness ==
  \E i \in FailedSaves :
    /\ merges[i].wr = "open_fail"
    /\ merges[i].before.kind = "ok"
    /\ merges[i].fileSame
    /\ DiskRec(file, merges[i].day, merges[i].name) = merges[i].before

\* C9: constructing the watcher never changes a file that exists; a missing
\* file is created, and after a construction that succeeded it holds the
\* empty document.
C9_InitIsIdempotent ==
  [][ConstructStep =>
       /\ file.kind # "missing" => file' = file
       /\ file' # file => file.kind = "missing"
       /\ (file.kind = "missing" /\ pc' = "tick") => file' = EmptyDoc]_vars

\* The watcher was constructed again over a file that holds records.
C9_Witness ==
  /\ last.op = "init"
  /\ pc = "tick"
  /\ clock >= TicksPerSec
  /\ RecKeys(file) # {}
  /\ nominal
  /\ ledger # [k \in {} |-> [base |-> 0, sum |-> 0, n |-> 0]]

\* The sum of the totals of the well-formed records of game n in the
\* document: records that are mappings with a numeric total, in date entries
\* that are mappings under a date key.
RECURSIVE SumTotals(_, _, _)
SumTotals(days, ks, n) ==
  IF ks = {} THEN 0
  ELSE LET d == CHOOSE x \in ks : TRUE
           here == IF /\ d # BadKey
                      /\ days[d].kind = "dict"
                      /\ n \in DOMAIN days[d].games
                      /\ days[d].games[n].kind = "ok"
                   THEN days[d].games[n].total ELSE 0
       IN  here + SumTotals(days, ks \ {d}, n)

\* C10: a refresh of a file that holds JSON never aborts, and aggregates
\* every well-formed record of the document into the totals of the cache,
\* whatever else the document holds.
C10_RefreshToleratesMalformedStore ==
  (view.op = "refresh" /\ file.kind = "json")
    => /\ ~view.aborted
       /\ \A n \in Names :
            LET t == IF file.top = "dict" THEN SumTotals(file.days, DOMAIN file.days, n)
                     ELSE 0
            IN  t > 0 => (n \in DOMAIN view.cache /\ view.cache[n].total = t)

\* The names of the well-formed records of the date entry of day in f:
\* mappings with a total, in a date entry that is a mapping.
WellFormedToday(f, day) ==
  IF f.kind = "json" /\ f.top = "dict" /\ day \in DOMAIN f.days
     /\ f.days[day].kind = "dict"
  THEN { n \in DOMAIN f.days[day].games :
           f.days[day].games[n].kind \in {"ok", "badtotal"} }
  ELSE {}

\* C11: a ranking read of a file whose entry of today is a mapping lets no
\* exception escape and returns every well-formed record of today, whatever
\* other records the entry holds.
C11_RankingToleratesMalformedRecords ==
  (/\ tray.op = "ranking"
   /\ file.kind = "json" /\ file.top = "dict"
   /\ tray.day \in DOMAIN file.days
   /\ file.days[tray.day].kind = "dict")
    => /\ ~tray.raised
       /\ { tray.ranking[i].name : i \in DOMAIN tray.ranking }
            = WellFormedToday(file, tray.day)

\* C12: whatever invocations of the log callback raise during a tick, the
\* tick leaves the running set and the file it leaves with a callback that
\* returns normally, and raises exactly when it raises with such a callback.
C12_CallbackNeverPropagates ==
  last.op = "tick"
    => /\ running = cbref.running
       /\ file = cbref.file
       /\ last.raised = cbref.raised

\* The callback raised on the stop log of a session that was then merged
\* into the file.
C12_Witness ==
  /\ last.op = "tick"
  /\ \E i \in cbref.cb \cap DOMAIN events : events[i].type = "stop"
  /\ \E j \in DOMAIN merges :
       /\ ~merges[j].raised
       /\ merges[j].wr = "ok"
       /\ ~merges[j].fileSame

\* The loop has just left a tick that raised, with time left before the
\* horizon of the model for a sleep and a tick.
TickRaised ==
  /\ last.op = "tick"
  /\ last.raised
  /\ clock + TicksPerSec + 1 <= MaxClock

\* C13: after a tick that raised, the failure is in the log and the loop is
\* at its sleep; the sleep eventually ends with the loop at its next call of
\* tick, and that call is eventually made.
C13_LoopSurvivesTickErrors ==
  /\ [](last.op = "tick" /\ last.raised
          => (pc = "sleep" /\ events # <<>>
              /\ events[Len(events)].type = "err_tick"))
  /\ TickRaised ~> (last.op = "sleep" /\ pc = "tick")
  /\ (last.op = "sleep" /\ pc = "tick") ~> (last.op = "tick")

\* A tick raised and was logged, with time left for a later tick.
C13_Witness ==
  /\ TickRaised
  /\ pc = "sleep"
  /\ events[Len(events)].type = "err_tick"

\* The log lines of the last tick other than the warnings of a failed
\* inspection and the loop's own error line.
ScanEvents ==
  SelectSeq(events, LAMBDA ev : ev.type \notin {"warn_proc", "err_tick"})

\* C14: a tick sees, starts, stops and merges exactly what it does on the
\* same scan without the processes whose inspection fails or whose path is
\* unavailable: those processes add nothing to the seen set and end nothing.
C14_FailedInspectionIsSkipped ==
  last.op = "tick"
    => /\ last.seen = last.clean.seen
       /\ running = last.clean.running
       /\ file = last.clean.file
       /\ merges = last.clean.merges
       /\ ScanEvents = last.clean.events
       /\ last.raised = last.clean.raised

\* A process whose inspection failed came first in a scan in which another
\* executable was found started and a running one was found stopped.
C14_Witness ==
  /\ last.op = "tick"
  /\ events # <<>>
  /\ events[1].type = "warn_proc"
  /\ \E i \in DOMAIN events : events[i].type = "start" /\ events[i].exe \in last.seen
  /\ \E j \in DOMAIN merges : ~merges[j].raised /\ ~merges[j].fileSame

\* The session of report m started on an earlier calendar day than the day
\* of its merge.
SpansDays(m) == DateOf(m.start) < DateOf(m.now)

\* The tick step holding the _record call of report m put the whole session
\* under the date of the merge and left the records of the start date alone.
AttributedToMergeDate(m) ==
  /\ m.day = DateOf(clock)
  /\ m.after.kind = "ok"
  /\ m.after.total = (IF m.before.kind = "ok" THEN m.before.total ELSE 0) + m.dur
  /\ \A n \in Names :
       DiskRec(file', DateOf(m.start), n) = DiskRec(file, DateOf(m.start), n)

\* C15: a session that started on date D1 and is found stopped on a later
\* date D2 adds its whole duration to the record under D2, and every record
\* under D1 is on disk after the tick as it was before.
C15_BucketIsDateOfMerge ==
  [][TickStep => \A j \in DOMAIN merges' :
       SpansDays(merges'[j]) => AttributedToMergeDate(merges'[j])]_vars

\* The same for a tick whose _record calls all find the store well formed
\* where they touch it and read and write it without failure.
C15_BucketIsDateOfMergeWhenNominal ==
  [][(TickStep /\ \A j \in DOMAIN merges' : NominalMerge(merges'[j]))
       => \A j \in DOMAIN merges' :
            SpansDays(merges'[j]) => AttributedToMergeDate(merges'[j])]_vars

\* A session that spans two days was merged while the file held a record
\* of the same game under the start date.
C15_Witness ==
  /\ last.op = "tick"
  /\ \E j \in DOMAIN merges :
       /\ SpansDays(merges[j])
       /\ NominalMerge(merges[j])
       /\ merges[j].dur >= 1
       /\ DiskRec(file, DateOf(merges[j].start), merges[j].name).kind = "ok"

\* The total a _record call found on disk under its (date, name).
BaseTotal(m) == IF m.before.kind = "ok" THEN m.before.total ELSE 0

\* In the tick step at hand the sessions of the reports i < j, of two
\* executables with one display name, went into one record, which holds
\* their sum; each had its own entry of running and its own stop event.
SameGameSummed(i, j) ==
  LET a == merges'[i]
      b == merges'[j]
  IN  /\ {a.exe, b.exe} \subseteq Keys(running)
      /\ CountEv(events', "stop", a.exe) = 1
      /\ CountEv(events', "stop", b.exe) = 1
      /\ a.day = b.day /\ a.name = b.name
      /\ DiskRec(file', b.day, b.name).kind = "ok"
      /\ DiskRec(file', b.day, b.name).total = BaseTotal(a) + a.dur + b.dur

\* Two executables of the catalog with one display name.
SameGame(e1, e2) == e1 # e2 /\ games[e1] = games[e2]

\* C16: running holds one entry per executable, every session goes to the
\* record under the display name of its executable, and when two
\* executables with one display name stop in the same tick the record holds
\* the sum of both durations on top of what it held.
C16_IdentityIsDisplayName ==
  [][TickStep =>
       /\ \A i, j \in DOMAIN running' : i # j => running'[i].exe # running'[j].exe
       /\ \A j \in DOMAIN merges' : merges'[j].name = games[merges'[j].exe]
       /\ \A i, j \in DOMAIN merges' :
            (i < j /\ SameGame(merges'[i].exe, merges'[j].exe)) => SameGameSummed(i, j)]_vars

\* The same, the sum being claimed for ticks whose _record calls all find the
\* store well formed where they touch it and read and write it without
\* failure.
C16_IdentityIsDisplayNameWhenNominal ==
  [][TickStep =>
       /\ \A i, j \in DOMAIN running' : i # j => running'[i].exe # running'[j].exe
       /\ \A j \in DOMAIN merges' : merges'[j].name = games[merges'[j].exe]
       /\ (\A j \in DOMAIN merges' : NominalMerge(merges'[j]))
            => \A i, j \in DOMAIN merges' :
                 (i < j /\ SameGame(merges'[i].exe, merges'[j].exe))
                   => SameGameSummed(i, j)]_vars

\* Two executables of one game stopped in the same tick after sessions of at
\* least a second each, and the record they went to had a positive total.
C16_Witness ==
  /\ last.op = "tick"
  /\ Len(merges) = 2
  /\ SameGame(merges[1].exe, merges[2].exe)
  /\ \A j \in DOMAIN merges : NominalMerge(merges[j]) /\ merges[j].dur >= 1
  /\ merges[1].before.kind = "ok"
  /\ merges[1].before.total >= 1
  /\ DiskRec(file, merges[2].day, merges[2].name).total
       = merges[1].before.total + merges[1].dur + merges[2].dur

\* The _record calls of the tick step at hand that wrote the record under
\* (d, n): positions in merges'.
Written(d, n) ==
  IF TickStep
  THEN { j \in DOMAIN merges' :
           /\ merges'[j].day = d /\ merges'[j].name = n
           /\ ~merges'[j].raised /\ merges'[j].wr = "ok" }
  ELSE {}

\* The days the file holds.
FileDays(f) == IF f.kind = "json" /\ f.top = "dict" THEN DOMAIN f.days ELSE {}

\* C17: in every step, a record the file holds afterwards either was written
\* by a _record call of the step, and then its last_open is the formatted
\* start and its last_close the formatted merge time of the last such call,
\* or it was on disk before the step with the same two timestamps.
C17_TimestampsOfLastMerge ==
  [][\A d \in FileDays(file') : \A n \in Names :
       LET r2 == DiskRec(file', d, n)
           r1 == DiskRec(file, d, n)
           w == Written(d, n)
       IN  r2.kind = "ok" =>
             IF w # {}
             THEN LET j == CHOOSE k \in w : \A i \in w : i <= k
                  IN  /\ r2.last_open = FormatTs(merges'[j].start)
                      /\ r2.last_close = FormatTs(merges'[j].now)
             ELSE /\ r1.kind = "ok"
                  /\ r2.last_open = r1.last_open
                  /\ r2.last_close = r1.last_close]_vars

\* A second session was merged into a record: the record's timestamps were
\* those of the first session and are now those of the second, which ended
\* at a later second.
C17_Witness ==
  /\ last.op = "tick"
  /\ nominal
  /\ \E j \in DOMAIN merges :
       LET m == merges[j]
           r == DiskRec(file, m.day, m.name)
       IN  /\ <<m.day, m.name>> \in DOMAIN ledger
           /\ ledger[<<m.day, m.name>>].n >= 2
           /\ m.before.kind = "ok"
           /\ m.before.last_close # FormatTs(m.now)
           /\ r.last_open = FormatTs(m.start)
           /\ r.last_close = FormatTs(m.now)

\* A step of the Qt thread alone: the monitor thread, which moves at every
\* step it takes, stays where it is.
PresentationStep == pc' = pc

MidSaveKinds == {"missing", "empty", "garbage", "undecodable"}

\* C19: a step of the presentation leaves the file as it is; after a tick
\* that saved, with or without a read at the same time, the file holds the
\* record the last _record call wrote; and a read that finds the file
\* absent, empty or partly written ends without raising.
C19_PresentationOnlyReads ==
  [][/\ PresentationStep => file' = file
     /\ (TickStep /\ merges' # <<>> /\ ~merges'[Len(merges')].raised)
          => DiskRec(file', merges'[Len(merges')].day, merges'[Len(merges')].name)
               = merges'[Len(merges')].after
     /\ (tray' # tray /\ tray'.saw \in MidSaveKinds) => ~tray'.raised
     /\ (view' # view /\ view'.early) => ~view'.aborted]_vars

\* C20: after start_monitor ran on a defective configuration, the failure
\* is in the log, start_monitor has returned, and there is no watcher: no
\* tick was made and none will be.
C20_DefectiveConfigIsReported ==
  last.op = "config"
    => /\ ~last.raised
       /\ \E i \in DOMAIN events :
            events[i].type \in {"err_config_missing", "err_config_key"}
       /\ pc = "ended"
       /\ running = <<>>
       /\ merges = <<>>

\* The tick step at hand found e and logged its start at the current clock
\* reading, which running holds for e.
FreshStart(e) ==
  /\ \E i \in DOMAIN events' :
       events'[i] = Event("start", e, clock)
  /\ \E i \in DOMAIN running' : running'[i] = [exe |-> e, start |-> clock]

\* C21: constructing a watcher leaves the file as it is (a missing file
\* apart) and running empty, whatever the replaced watcher held in running;
\* the first tick after it merges nothing and starts afresh, at its clock
\* reading, every executable it observes; and every session merged later
\* began with a start event logged since the construction.
C21_RestartDropsSessions ==
  [][/\ ConstructStep =>
          /\ running' = <<>>
          /\ merges' = <<>>
          /\ file' = file \/ file.kind = "missing"
          /\ \A e \in Exes : startedAt'[e] = Null
     /\ (TickStep /\ last.op = "init") =>
          /\ merges' = <<>>
          /\ file' = file
          /\ \A e \in last'.seen : FreshStart(e)
     /\ TickStep =>
          \A j \in DOMAIN merges' :
            /\ stopInfo'[j].startedAt # Null
            /\ merges'[j].start = stopInfo'[j].startedAt]_vars

\* The host restarted while an executable was in running; the first tick of
\* the new watcher observed it and started it afresh.
C21_Witness ==
  /\ last.op = "tick"
  /\ \E e \in last.interrupted :
       /\ e \in last.seen
       /\ startedAt[e] = clock
       /\ \E k \in DOMAIN running : running[k] = [exe |-> e, start |-> clock]

\* The tick step at hand ended the session of e: a stop event, a _record
\* call, and e is out of running.
SessionEnded(e) ==
  /\ CountEv(events', "stop", e) = 1
  /\ \E j \in DOMAIN merges' : merges'[j].exe = e
  /\ e \notin Keys(running')

\* What C22 says of one tick step: a file name with a session in progress
\* that the scan does not observe has its session ended by this tick, with
\* the duration up to this tick; and a file name the scan observes and the
\* tick before did not observe starts a session at this tick's clock reading.
NoDebounceStep ==
  \A e \in DOMAIN games :
    /\ (e \in Keys(running) /\ e \notin last'.seen) => SessionEnded(e)
    /\ (e \in last'.seen /\ runStarts[e] = 0) => FreshStart(e)

\* C22: there is no debounce: a catalog file name observed by tick k, missed
\* by tick k+1 and observed again by tick k+2 has its session ended by tick
\* k+1 (stop event and store merge) and a new session with a new start time
\* begun by tick k+2, so that the gap is part of no duration.  The code breaks
\* it when _record raises for another file name in tick k+1: the session
\* stays in running, tick k+2 starts nothing, and the stop that follows
\* hands _record a duration that spans the gap.
C22_NoDebounce == [][TickStep => NoDebounceStep]_vars

\* C22 while no _record call has met a malformed store or an I/O failure.
C22_NoDebounceWhenNominal == [][(TickStep /\ nominal') => NoDebounceStep]_vars

\* The reference decomposition of C23, as the characters of the text.
ReferenceText(isInt, s) ==
  IF ~isInt \/ s < 0 THEN <<"0", "s">>
  ELSE LET h == s \div 3600
           m == (s % 3600) \div 60
           c == s % 60
           cs == IF c # 0 THEN Digits(c) \o <<"s">> ELSE <<>>
       IN  IF h > 0 THEN Digits(h) \o <<"h">> \o Digits(m) \o <<"m">> \o cs
           ELSE IF m > 0 THEN Digits(m) \o <<"m">> \o cs
           ELSE Digits(c) \o <<"s">>

\* The texts the specification gives as examples.
ExampleText(s) ==
  CASE s = 0 -> <<"0", "s">>
    [] s = 45 -> <<"4", "5", "s">>
    [] s = 120 -> <<"2", "m">>
    [] s = 3661 -> <<"1", "h", "1", "m", "1", "s">>
    [] s = 7200 -> <<"2", "h", "0", "m">>
    [] s = -5 -> <<"0", "s">>

Examples == {0, 45, 120, 3661, 7200, -5}

\* The record of today whose total the tray formatted.
Formatted == file.days[0].games["Game"]

\* C23: format_playtime equals the reference decomposition on every int of
\* -MaxBelowZero..MaxSeconds and on a value that is no int, and gives the
\* texts of the examples: the text the tray shows for today's record is the
\* reference text of the total in the file.
C23_FormatMatchesReference ==
  (tray.op = "ranking" /\ ~tray.raised) =>
    /\ Len(tray.ranking) = 1
    /\ Rendered(tray.ranking[1].time)
         = ReferenceText(Formatted.kind = "ok", Formatted.total)
    /\ (Formatted.kind = "ok" /\ Formatted.total \in Examples) =>
         Rendered(tray.ranking[1].time) = ExampleText(Formatted.total)

\* 3661 seconds were formatted, with hours, minutes and seconds to show.
C23_Witness ==
  /\ tray.op = "ranking"
  /\ Formatted.kind = "ok"
  /\ Formatted.total = 3661
  /\ Rendered(tray.ranking[1].time) = <<"1", "h", "1", "m", "1", "s">>

\* C24: after every tick that returns normally the keys of running are the
\* catalog file names its scan observed; and in every state every key of
\* running is a key of the catalog.
C24_RunningIsObserved ==
  /\ (last.op = "tick" /\ ~last.raised) =>
       /\ Keys(running) = last.seen
       /\ Len(running) = Cardinality(last.seen)
  /\ Keys(running) \subseteq DOMAIN games

\* A tick returned normally after it ended one session and kept another.
C24_Witness ==
  /\ last.op = "tick"
  /\ ~last.raised
  /\ merges # <<>>
  /\ running # <<>>
  /\ Keys(running) = last.seen

\* The session the j-th _record call of the tick step at hand was handed:
\* it was in running before the tick, began before it, and is out of running
\* after it; no other call of the tick was for the same file name.
MergedOnce(j) ==
  /\ \E i \in DOMAIN running :
       running[i] = [exe |-> merges'[j].exe, start |-> merges'[j].start]
  /\ merges'[j].start < clock
  /\ merges'[j].exe \notin Keys(running')
  /\ \A k \in DOMAIN merges' : merges'[k].exe = merges'[j].exe => k = j

\* C25: a session is handed to _record once and never again.  Every
\* _record call of a tick is for a session that was in running and is out of
\* it after the tick, also when the call raised; a call that raised is the
\* last of its tick, the exception leaves tick, and the file is as the call
\* found it; and whatever a step adds to running starts at the clock reading
\* of that step, so that a session that left running does not come back.
C25_MergedAtMostOnce ==
  [][/\ TickStep =>
          \A j \in DOMAIN merges' :
            /\ MergedOnce(j)
            /\ merges'[j].raised =>
                 /\ j = Len(merges')
                 /\ last'.raised
                 /\ merges'[j].fileSame
                 /\ merges'[j].after = merges'[j].before
     /\ \A i \in DOMAIN running' :
          (\A k \in DOMAIN running : running[k] # running'[i]) =>
            running'[i].start = clock']_vars

\* A _record call raised on a store that is malformed where it touches it,
\* for a session of a second or more; the file name is out of running.
C25_Witness ==
  /\ last.op = "tick"
  /\ last.raised
  /\ merges # <<>>
  /\ merges[Len(merges)].raised
  /\ ~merges[Len(merges)].shapeOk
  /\ merges[Len(merges)].dur >= 1
  /\ merges[Len(merges)].fileSame
  /\ merges[Len(merges)].exe \notin Keys(running)

\* Several processes bear the file name e in the scan of the tick step at
\* hand, or did in the scan before it.
Several(e) == scan[e] >= 2 \/ scan'[e] >= 2

\* What C26 says of one tick step and one file name e: with processes of e
\* in the scan, no stop and no merge, one entry in running, and a start
\* event (one) exactly when e was not in running; with none and e in
\* running, the session ends in this tick, with one merge.
SingleSessionStep(e) ==
  /\ scan'[e] >= 1 =>
       /\ CountEv(events', "stop", e) = 0
       /\ \A j \in DOMAIN merges' : merges'[j].exe # e
       /\ Cardinality({ i \in DOMAIN running' : running'[i].exe = e }) = 1
       /\ CountEv(events', "start", e) = IF e \in Keys(running) THEN 0 ELSE 1
       /\ \A i \in DOMAIN running :
            running[i].exe = e => \E k \in DOMAIN running' : running'[k] = running[i]
  /\ (scan'[e] = 0 /\ e \in Keys(running)) =>
       /\ SessionEnded(e)
       /\ Cardinality({ j \in DOMAIN merges' : merges'[j].exe = e }) = 1

\* C26: the processes that bear one catalog file name form one session: one
\* start event when the first is observed, no stop while one of them is
\* observed, and one stop with one merge in the first tick that observes
\* none.  The code breaks the last part when _record raises for another
\* file name in that tick: the session stays in running without a stop.
C26_ProcessesShareSession ==
  [][TickStep => \A e \in DOMAIN games : Several(e) => SingleSessionStep(e)]_vars

\* C26 while no _record call has met a malformed store.
C26_ProcessesShareSessionWhenNominal ==
  [][(TickStep /\ nominal') =>
       \A e \in DOMAIN games : Several(e) => SingleSessionStep(e)]_vars


\* The tick step at hand observes exactly the file names in running: it has
\* no start and no stop to make.
QuietTick == TickStep /\ last'.seen = Keys(running)

\* A quiet tick leaves running and the file as they are and calls _record
\* for nothing: no load, no save.
QuietTickFrame ==
  /\ running' = running
  /\ file' = file
  /\ merges' = <<>>
  /\ faults' = faults
  /\ ~last'.raised

\* No step overwrites the start time of a file name that stays in running.
StartsKept ==
  \A i \in DOMAIN running :
    running[i].exe \in Keys(running') =>
      \E k \in DOMAIN running' : running'[k] = running[i]

\* C27 as stated: a tick that observes exactly the file names in running
\* leaves running unchanged, loads and saves nothing and emits no log
\* event; no start time is overwritten while its file name stays in running.
\* A process whose inspection raises an unexpected exception is logged by
\* such a tick all the same.
C27_QuietTickChangesNothing ==
  [][/\ QuietTick => (QuietTickFrame /\ events' = <<>>)
     /\ StartsKept]_vars

\* C27 with the log as the code has it: a tick that observes exactly the
\* file names in running emits no start and no stop event, only the warning
\* for each process whose inspection raised an unexpected exception.
C27_QuietTickOnlyWarns ==
  [][/\ QuietTick =>
          /\ QuietTickFrame
          /\ \A i \in DOMAIN events' : events'[i] = Event("warn_proc", "", 0)
     /\ StartsKept]_vars

\* A tick found the session it had in running still observed, and logged
\* the failed inspection of another process.
C27_Witness ==
  /\ last.op = "tick"
  /\ ~last.raised
  /\ merges = <<>>
  /\ running # <<>>
  /\ Keys(running) = last.seen
  /\ \A i \in DOMAIN running : running[i].start < clock
  /\ events = <<Event("warn_proc", "", 0)>>

\* The j-th _record call of the last tick wrote the file.
Wrote(j) == ~merges[j].raised /\ merges[j].wr = "ok"

\* The total the j-th _record call added its duration to: that of the
\* record it loaded, 0 for a record it had to create.
LoadedTotal(j) ==
  IF merges[j].loaded /\ merges[j].before.kind = "ok" THEN merges[j].before.total
  ELSE 0

\* C28: the clock never goes backwards, so every start time in running is a
\* clock reading of the past and every duration handed to _record is an
\* int >= 0; a record the watcher writes has an int total >= 0 when the
\* total it was loaded with is one, the loaded total plus the duration, and
\* a last_open that is not later than its last_close.
C28_DurationsAndTotalsNonNegative ==
  /\ \A i \in DOMAIN running : running[i].start <= clock
  /\ \A j \in DOMAIN merges :
       /\ merges[j].dur \in Nat
       /\ merges[j].start <= merges[j].now
       /\ (Wrote(j) /\ LoadedTotal(j) \in Nat) =>
            /\ merges[j].after.kind = "ok"
            /\ merges[j].after.total \in Nat
            /\ merges[j].after.total = LoadedTotal(j) + merges[j].dur
            /\ merges[j].after.last_open # Null
            /\ merges[j].after.last_open <= merges[j].after.last_close

\* A session of a second or more was added to a record with a total.
C28_Witness ==
  \E j \in DOMAIN merges :
    /\ Wrote(j)
    /\ merges[j].dur >= 1
    /\ LoadedTotal(j) >= 1
    /\ merges[j].after.total = LoadedTotal(j) + merges[j].dur
    /\ merges[j].after.last_open < merges[j].after.last_close
====
